---- MODULE Spec2Model ----
(***************************************************************************)
(* Model of imalink-core's single operation, POST /v1/process              *)
(* (service/main.py, process_image_endpoint): (file_path, coldpreview_size)*)
(* -> PhotoEgg record or HTTP error.                                       *)
(*                                                                         *)
(* The handler is modelled statement by statement from service/main.py.    *)
(* The collaborators it imports from the imalink_core package              *)
(* (ImageValidator, ExifExtractor, PreviewGenerator, CorePhoto) are        *)
(* modelled from the specification, sections 4.1 - 4.4.                    *)
(***************************************************************************)
EXTENDS Integers, Sequences, FiniteSets, TLC

VARIABLES calls, prev

vars == <<calls, prev>>

(***************************************************************************)
(* Optional values: None is the empty sequence, Some(v) a one-element one. *)
(***************************************************************************)
None == <<>>

Some(v) == <<v>>

IsNone(o) == Len(o) = 0

(***************************************************************************)
(* Bounds and program constants.                                           *)
(***************************************************************************)
\* number of workers that run calls concurrently under SpecConc
NumCalls == 2

\* edge length of the hotpreview, and the least coldpreview_size accepted
HOTPREVIEW_SIZE == 150

(***************************************************************************)
(* The files on disk.  A path is the sequence of its components; a file is *)
(* its bytes (named by a content identity) and its modification time.      *)
(* "B_gps" and "B_plain" are each stored under two names.                  *)
(***************************************************************************)
Paths ==
    { <<"photos", "gone.jpg">>,
      <<"photos", "notes.jpg">>,
      <<"photos", "plain.png">>,
      <<"photos", "gps.jpg">>,
      <<"backup", "copy.jpg">>,
      <<"backup", "plain_copy.png">>,
      <<"photos", "broken_exif.jpg">>,
      <<"photos", "partial.jpg">>,
      <<"photos", "truncated.jpg">>,
      <<"photos", "late_damage.jpg">> }

OnDisk == Paths \ { <<"photos", "gone.jpg">> }

FileAt(p) ==
    CASE p = <<"photos", "notes.jpg">>       -> [bytes |-> "B_text",    mtime |-> "2020-01-01"]
      [] p = <<"photos", "plain.png">>       -> [bytes |-> "B_plain",   mtime |-> "2021-02-02"]
      [] p = <<"photos", "gps.jpg">>         -> [bytes |-> "B_gps",     mtime |-> "2022-03-03"]
      [] p = <<"backup", "copy.jpg">>        -> [bytes |-> "B_gps",     mtime |-> "2023-04-04"]
      [] p = <<"backup", "plain_copy.png">>  -> [bytes |-> "B_plain",   mtime |-> "2024-09-09"]
      [] p = <<"photos", "broken_exif.jpg">> -> [bytes |-> "B_badexif", mtime |-> "2021-05-05"]
      [] p = <<"photos", "partial.jpg">>     -> [bytes |-> "B_partial", mtime |-> "2021-06-06"]
      [] p = <<"photos", "truncated.jpg">>   -> [bytes |-> "B_trunc",   mtime |-> "2021-07-07"]
      [] p = <<"photos", "late_damage.jpg">> -> [bytes |-> "B_late",    mtime |-> "2021-08-08"]

(***************************************************************************)
(* What the bytes of a file decode to.                                     *)
(*   magic   the container the header bytes announce ("none": no image)    *)
(*   width, height   the dimensions in the container header                *)
(*   exif    st: "none" (no EXIF segment), "corrupt" (segment unparsable), *)
(*           "ok"; tags: the tags present; bad: the tags that are there    *)
(*           but malformed                                                 *)
(*   pixels  identity of the pixel data                                    *)
(*   fails   the preview renditions whose decode/resize/encode fails       *)
(* Angles are in arc seconds, f-numbers and focal lengths in tenths.       *)
(***************************************************************************)
NoExif == [st |-> "none", tags |-> [Orientation |-> 1], bad |-> {}]

CorruptExif == [st |-> "corrupt", tags |-> [Orientation |-> 1], bad |-> {}]

FullExif ==
    [st |-> "ok",
     tags |-> [DateTimeOriginal  |-> "2019:07:14 10:00:00",
               DateTimeDigitized |-> "2019:07:14 10:00:01",
               DateTime          |-> "2019:08:01 09:00:00",
               Make              |-> "Sony",
               Model             |-> "XQ-BC52",
               GPSLatitude       |-> <<59, 54, 50>>,
               GPSLatitudeRef    |-> "N",
               GPSLongitude      |-> <<10, 45, 8>>,
               GPSLongitudeRef   |-> "E",
               ISOSpeedRatings   |-> 100,
               FNumber           |-> <<28, 10>>,
               ApertureValue     |-> 4,
               ExposureTime      |-> <<1, 200>>,
               FocalLength       |-> <<50, 1>>,
               LensModel         |-> "FE 50mm",
               LensMake          |-> "Sony",
               Orientation       |-> 6],
     bad |-> {}]

\* latitude malformed, longitude fine; only the generic DateTime; only the
\* APEX aperture; a multi-second exposure; southern/western hemisphere refs
PartialExif ==
    [st |-> "ok",
     tags |-> [DateTime          |-> "2018:01:01 00:00:00",
               Make              |-> "Canon",
               GPSLatitude       |-> <<0, 0, 0>>,
               GPSLatitudeRef    |-> "S",
               GPSLongitude      |-> <<70, 30, 0>>,
               GPSLongitudeRef   |-> "W",
               ISOSpeedRatings   |-> 0,
               ApertureValue     |-> 5,
               ExposureTime      |-> <<2, 1>>,
               Orientation       |-> 1],
     bad |-> {"GPSLatitude", "ISOSpeedRatings"}]

Image(bytes) ==
    CASE bytes = "B_text" ->
           [magic |-> "none", width |-> 0, height |-> 0, exif |-> NoExif,
            pixels |-> "none", fails |-> {"hot", "cold"}]
      [] bytes = "B_plain" ->
           [magic |-> "PNG", width |-> 4000, height |-> 3000, exif |-> NoExif,
            pixels |-> "px_plain", fails |-> {}]
      [] bytes = "B_gps" ->
           [magic |-> "JPEG", width |-> 3000, height |-> 4000, exif |-> FullExif,
            pixels |-> "px_gps", fails |-> {}]
      [] bytes = "B_badexif" ->
           [magic |-> "JPEG", width |-> 100, height |-> 80, exif |-> CorruptExif,
            pixels |-> "px_small", fails |-> {}]
      [] bytes = "B_partial" ->
           [magic |-> "JPEG", width |-> 150, height |-> 150, exif |-> PartialExif,
            pixels |-> "px_square", fails |-> {}]
      [] bytes = "B_trunc" ->
           [magic |-> "JPEG", width |-> 640, height |-> 480, exif |-> NoExif,
            pixels |-> "px_trunc", fails |-> {"hot", "cold"}]
      [] bytes = "B_late" ->
           [magic |-> "JPEG", width |-> 1, height |-> 2000, exif |-> NoExif,
            pixels |-> "px_late", fails |-> {"cold"}]

(***************************************************************************)
(* Outcome of a collaborator call: a returned value or a raised exception. *)
(***************************************************************************)
Return(v) == [raised |-> FALSE, value |-> Some(v), exc |-> ""]

Raise(e) == [raised |-> TRUE, value |-> None, exc |-> e]

Value(r) == r.value[1]

(***************************************************************************)
(* pathlib.Path: name is the final component, exists() looks at the disk.  *)
(***************************************************************************)
Name(p) == p[Len(p)]

Exists(p) == p \in OnDisk

(***************************************************************************)
(* ImageValidator.validate_file: header sniffing only.  (is_valid, error). *)
(***************************************************************************)
SupportedFormats == {"JPEG", "PNG"}

validate_file(p) ==
    LET img == Image(FileAt(p).bytes) IN
      IF img.magic \notin SupportedFormats
        THEN [is_valid |-> FALSE, error |-> "Unsupported or corrupt image format"]
      ELSE IF img.width < 1 \/ img.height < 1
        THEN [is_valid |-> FALSE, error |-> "Degenerate image dimensions"]
      ELSE [is_valid |-> TRUE, error |-> ""]

(***************************************************************************)
(* ExifExtractor.  A tag missing from the block, malformed, or inside a    *)
(* missing or corrupt block reads as absent; nothing here raises.          *)
(***************************************************************************)
Tag(exif, name) ==
    IF exif.st = "ok" /\ name \in DOMAIN exif.tags /\ name \notin exif.bad
      THEN Some(exif.tags[name])
      ELSE None

\* EXIF "YYYY:MM:DD hh:mm:ss" or a filesystem time, rendered as a timestamp
Timestamp(origin, raw) == <<"timestamp", origin, raw>>

\* DateTimeOriginal, then DateTimeDigitized, then DateTime, then the mtime
TakenAt(exif, mtime) ==
    IF ~IsNone(Tag(exif, "DateTimeOriginal"))
      THEN Some(Timestamp("exif", Tag(exif, "DateTimeOriginal")[1]))
    ELSE IF ~IsNone(Tag(exif, "DateTimeDigitized"))
      THEN Some(Timestamp("exif", Tag(exif, "DateTimeDigitized")[1]))
    ELSE IF ~IsNone(Tag(exif, "DateTime"))
      THEN Some(Timestamp("exif", Tag(exif, "DateTime")[1]))
    ELSE Some(Timestamp("mtime", mtime))

\* degrees/minutes/seconds and hemisphere reference -> signed arc seconds
Coordinate(exif, tag, ref, negative) ==
    IF IsNone(Tag(exif, tag)) \/ IsNone(Tag(exif, ref))
      THEN None
      ELSE LET dms == Tag(exif, tag)[1]
               a   == dms[1] * 3600 + dms[2] * 60 + dms[3]
           IN  Some(IF Tag(exif, ref)[1] = negative THEN 0 - a ELSE a)

extract_basic(p) ==
    LET f   == FileAt(p)
        img == Image(f.bytes)
        x   == img.exif
    IN  Return([width         |-> img.width,
                height        |-> img.height,
                taken_at      |-> TakenAt(x, f.mtime),
                camera_make   |-> Tag(x, "Make"),
                camera_model  |-> Tag(x, "Model"),
                gps_latitude  |-> Coordinate(x, "GPSLatitude", "GPSLatitudeRef", "S"),
                gps_longitude |-> Coordinate(x, "GPSLongitude", "GPSLongitudeRef", "W")])

\* a rational <<num, den>> in tenths, rounded half up; absent if den = 0
Tenths(q) == IF q[2] = 0 THEN None ELSE Some((q[1] * 20 + q[2]) \div (2 * q[2]))

\* f = 2^(APEX/2) in tenths, for the whole APEX values 0..8
ApexFNumber(a) ==
    IF a \in 0..8 THEN Some(<<10, 14, 20, 28, 40, 57, 80, 113, 160>>[a + 1]) ELSE None

\* the direct f-number wins over the APEX aperture value
Aperture(exif) ==
    IF ~IsNone(Tag(exif, "FNumber")) THEN Tenths(Tag(exif, "FNumber")[1])
    ELSE IF ~IsNone(Tag(exif, "ApertureValue")) THEN ApexFNumber(Tag(exif, "ApertureValue")[1])
    ELSE None

\* exposure time <<num, den>>: "1/N" below one second, whole seconds above
ShutterSpeed(exif) ==
    IF IsNone(Tag(exif, "ExposureTime")) THEN None
    ELSE LET t == Tag(exif, "ExposureTime")[1] IN
         IF t[1] < 1 \/ t[2] < 1 THEN None
         ELSE IF t[1] < t[2] THEN Some(<<"1/", (2 * t[2] + t[1]) \div (2 * t[1])>>)
         ELSE Some(<<"s", t[1] \div t[2]>>)

FocalLength(exif) ==
    IF IsNone(Tag(exif, "FocalLength")) THEN None ELSE Tenths(Tag(exif, "FocalLength")[1])

extract_camera_settings(p) ==
    LET x == Image(FileAt(p).bytes).exif IN
      Return([iso           |-> Tag(x, "ISOSpeedRatings"),
              aperture      |-> Aperture(x),
              shutter_speed |-> ShutterSpeed(x),
              focal_length  |-> FocalLength(x),
              lens_model    |-> Tag(x, "LensModel"),
              lens_make     |-> Tag(x, "LensMake")])

(***************************************************************************)
(* HothashCalculator: a cryptographic digest, modelled as collision free.  *)
(* Base64 is the wire encoding of the preview bytes.                       *)
(***************************************************************************)
Hothash(bytes) == <<"sha256", bytes>>

Base64(bytes) == <<"base64", bytes>>

(***************************************************************************)
(* PreviewGenerator.                                                       *)
(***************************************************************************)
Min(a, b) == IF a < b THEN a ELSE b

Max(a, b) == IF a < b THEN b ELSE a

\* a * n / d rounded half up, never below 1
Scale(a, n, d) == Max(1, (2 * a * n + d) \div (2 * d))

\* EXIF orientations 5..8 turn the image by a quarter
Oriented(img) ==
    LET o == IF img.exif.st = "ok" THEN img.exif.tags.Orientation ELSE 1 IN
      IF o \in 5..8
        THEN [width |-> img.height, height |-> img.width, orientation |-> o]
        ELSE [width |-> img.width, height |-> img.height, orientation |-> o]

\* scale so that the shorter edge is `size`, then crop the centre square
CoverCrop(w, h, size) ==
    LET short == Min(w, h)
        sw    == Max(size, Scale(w, size, short))
        sh    == Max(size, Scale(h, size, short))
        left  == (sw - size) \div 2
        top   == (sh - size) \div 2
    IN  [left |-> left, top |-> top,
         width |-> Min(sw, left + size) - left, height |-> Min(sh, top + size) - top,
         scaled |-> <<sw, sh>>]

generate_hotpreview(p) ==
    LET img   == Image(FileAt(p).bytes)
        o     == Oriented(img)
        box   == CoverCrop(o.width, o.height, HOTPREVIEW_SIZE)
        bytes == [codec |-> "JPEG", quality |-> "fixed", pixels |-> img.pixels,
                  orientation |-> o.orientation, box |-> box]
    IN  IF ~Exists(p)
          THEN Raise("FileNotFoundError")
        ELSE IF "hot" \in img.fails
          THEN Raise("PreviewGenerationError: hotpreview")
          ELSE Return([bytes   |-> bytes,
                       base64  |-> Base64(bytes),
                       width   |-> box.width,
                       height  |-> box.height,
                       hothash |-> Hothash(bytes)])

\* the longer edge becomes max_size; a smaller source keeps its size
Fit(w, h, max_size) ==
    LET long == Max(w, h) IN
      IF long <= max_size
        THEN [width |-> w, height |-> h]
        ELSE [width |-> Scale(w, max_size, long), height |-> Scale(h, max_size, long)]

generate_coldpreview(p, max_size) ==
    LET img   == Image(FileAt(p).bytes)
        o     == Oriented(img)
        dim   == Fit(o.width, o.height, max_size)
        bytes == [codec |-> "JPEG", quality |-> "fixed", pixels |-> img.pixels,
                  orientation |-> o.orientation, dim |-> dim]
    IN  IF ~Exists(p)
          THEN Raise("FileNotFoundError")
        ELSE IF max_size < HOTPREVIEW_SIZE
          THEN Raise("ValueError: max_size below hotpreview size")
        ELSE IF "cold" \in img.fails
          THEN Raise("PreviewGenerationError: coldpreview")
        ELSE Return([bytes  |-> bytes,
                     base64 |-> Base64(bytes),
                     width  |-> dim.width,
                     height |-> dim.height])

(***************************************************************************)
(* CorePhoto.to_dict and the response model PhotoEggResponse, which keeps  *)
(* exactly its declared fields.                                            *)
(***************************************************************************)
to_dict(photo) == [k \in DOMAIN photo |-> photo[k]]

ResponseFields ==
    { "hothash", "hotpreview_base64", "hotpreview_width", "hotpreview_height",
      "coldpreview_base64", "coldpreview_width", "coldpreview_height",
      "primary_filename", "width", "height", "taken_at",
      "camera_make", "camera_model", "gps_latitude", "gps_longitude", "has_gps",
      "iso", "aperture", "shutter_speed", "focal_length", "lens_model", "lens_make" }

PhotoEggResponse(d) == [k \in ResponseFields |-> d[k]]

(***************************************************************************)
(* Requests.  coldpreview_size is optional.                                *)
(***************************************************************************)
Sizes == {None, Some(100), Some(HOTPREVIEW_SIZE), Some(300)}

Requests == [file_path : Paths, coldpreview_size : Sizes]

\* the requests of the concurrent specification
ConcRequests ==
    [file_path : { <<"photos", "gone.jpg">>, <<"photos", "gps.jpg">>,
                   <<"photos", "late_damage.jpg">> },
     coldpreview_size : {None, Some(300)}]

(***************************************************************************)
(* One call of process_image_endpoint.                                     *)
(*   pc      the statement the call is at                                  *)
(*   entry   "http": through the route, whose request model is validated   *)
(*           first; "direct": the function called with a request object    *)
(*   steps   the pipeline steps performed so far, in order                 *)
(*   the handler's locals, and result once the call has ended              *)
(***************************************************************************)
Idle ==
    [pc |-> "idle", entry |-> "", req |-> None, steps |-> <<>>,
     metadata |-> None, camera_settings |-> None,
     hotpreview |-> None, coldpreview |-> None, result |-> None]

Begin(entry, req) ==
    [Idle EXCEPT !.pc = IF entry = "http" THEN "request" ELSE "param",
                 !.entry = entry, !.req = Some(req)]

Req(c) == c.req[1]

\* HTTPException(status_code, detail) ends the call
HTTPException(c, status, detail) ==
    [c EXCEPT !.pc = "done",
              !.result = Some([status |-> status, detail |-> Some(detail), body |-> None])]

\* ProcessImageRequest: coldpreview_size: Optional[int] = Field(None, ge=150)
ProcessImageRequest(c) ==
    LET size == Req(c).coldpreview_size IN
      IF ~IsNone(size) /\ ~(size[1] >= HOTPREVIEW_SIZE)
        THEN HTTPException(c, 422, <<"coldpreview_size: greater than or equal", size[1]>>)
        ELSE [c EXCEPT !.pc = "param"]

\* CheckParamStep without the handler's own check of coldpreview_size
CheckParamStepAbsent(c) ==
    [c EXCEPT !.steps = Append(@, "param"), !.pc = "exists"]

\* if request.coldpreview_size is not None and request.coldpreview_size < 150
CheckParamStep(c) ==
    LET size == Req(c).coldpreview_size
        d    == [c EXCEPT !.steps = Append(@, "param")]
    IN  IF ~IsNone(size) /\ size[1] < HOTPREVIEW_SIZE
          THEN HTTPException(d, 400, <<"coldpreview_size must be >= 150", size[1]>>)
          ELSE [d EXCEPT !.pc = "exists"]

\* if not file_path.exists()
CheckExistsStep(c) ==
    LET d == [c EXCEPT !.steps = Append(@, "exists")] IN
      IF ~Exists(Req(c).file_path)
        THEN HTTPException(d, 400, <<"File not found", Req(c).file_path>>)
        ELSE [d EXCEPT !.pc = "validate"]

\* ValidateFileStep that notes the validator's verdict and carries on
ValidateFileStepLenient(c) ==
    [c EXCEPT !.steps = Append(@, "validate"), !.pc = "extract_basic"]

\* is_valid, error = ImageValidator.validate_file(file_path)
ValidateFileStep(c) ==
    LET d == [c EXCEPT !.steps = Append(@, "validate")]
        v == validate_file(Req(c).file_path)
    IN  IF ~v.is_valid
          THEN HTTPException(d, 400, <<v.error>>)
          ELSE [d EXCEPT !.pc = "extract_basic"]

\* except Exception as e: raise HTTPException(400, f"Processing failed: {e}")
ProcessingFailed(c, r) == HTTPException(c, 400, <<"Processing failed", r.exc>>)

\* ExtractBasicStep that gives up when the camera cannot be identified
ExtractBasicStepStrict(c) ==
    LET d == [c EXCEPT !.steps = Append(@, "extract_basic")]
        r == extract_basic(Req(c).file_path)
    IN  IF r.raised \/ IsNone(Value(r).camera_make)
          THEN HTTPException(d, 400, <<"Processing failed", "metadata extraction">>)
          ELSE [d EXCEPT !.pc = "extract_camera_settings", !.metadata = r.value]

\* metadata = ExifExtractor.extract_basic(file_path)
ExtractBasicStep(c) ==
    LET d == [c EXCEPT !.steps = Append(@, "extract_basic")]
        r == extract_basic(Req(c).file_path)
    IN  IF r.raised
          THEN ProcessingFailed(d, r)
          ELSE [d EXCEPT !.pc = "extract_camera_settings", !.metadata = r.value]

\* camera_settings = ExifExtractor.extract_camera_settings(file_path)
ExtractCameraSettingsStep(c) ==
    LET d == [c EXCEPT !.steps = Append(@, "extract_camera_settings")]
        r == extract_camera_settings(Req(c).file_path)
    IN  IF r.raised
          THEN ProcessingFailed(d, r)
          ELSE [d EXCEPT !.pc = "hotpreview", !.camera_settings = r.value]

\* hotpreview = PreviewGenerator.generate_hotpreview(file_path)
GenerateHotpreviewStep(c) ==
    LET d == [c EXCEPT !.steps = Append(@, "hotpreview")]
        r == generate_hotpreview(Req(c).file_path)
    IN  IF r.raised
          THEN ProcessingFailed(d, r)
          ELSE [d EXCEPT !.pc = "coldpreview", !.hotpreview = r.value]

\* GenerateColdpreviewStep that falls back to a default size of 2560 when
\* the request gives none
GenerateColdpreviewStepDefault(c) ==
    LET size == IF IsNone(Req(c).coldpreview_size) THEN Some(2560) ELSE Req(c).coldpreview_size
        d    == [c EXCEPT !.steps = Append(@, "coldpreview")]
        r    == generate_coldpreview(Req(c).file_path, size[1])
    IN  IF r.raised
          THEN ProcessingFailed(d, r)
          ELSE [d EXCEPT !.pc = "assemble", !.coldpreview = r.value]

\* GenerateColdpreviewStep that leaves a failed coldpreview out of the record
GenerateColdpreviewStepOmit(c) ==
    LET size == Req(c).coldpreview_size IN
      IF ~IsNone(size)
        THEN LET d == [c EXCEPT !.steps = Append(@, "coldpreview")]
                 r == generate_coldpreview(Req(c).file_path, size[1])
             IN  [d EXCEPT !.pc = "assemble", !.coldpreview = r.value]
        ELSE [c EXCEPT !.pc = "assemble", !.coldpreview = None]

\* if request.coldpreview_size is not None: coldpreview = generate_coldpreview(...)
GenerateColdpreviewStep(c) ==
    LET size == Req(c).coldpreview_size IN
      IF ~IsNone(size)
        THEN LET d == [c EXCEPT !.steps = Append(@, "coldpreview")]
                 r == generate_coldpreview(Req(c).file_path, size[1])
             IN  IF r.raised
                   THEN ProcessingFailed(d, r)
                   ELSE [d EXCEPT !.pc = "assemble", !.coldpreview = r.value]
        ELSE [c EXCEPT !.pc = "assemble", !.coldpreview = None]

\* CorePhoto with has_gps set when either coordinate is present
CorePhotoGpsEither(file_path, metadata, camera_settings, hotpreview, coldpreview) ==
    [hothash            |-> hotpreview.hothash,
     hotpreview_base64  |-> hotpreview.base64,
     hotpreview_width   |-> hotpreview.width,
     hotpreview_height  |-> hotpreview.height,
     coldpreview_base64 |-> IF IsNone(coldpreview) THEN None ELSE Some(coldpreview[1].base64),
     coldpreview_width  |-> IF IsNone(coldpreview) THEN None ELSE Some(coldpreview[1].width),
     coldpreview_height |-> IF IsNone(coldpreview) THEN None ELSE Some(coldpreview[1].height),
     primary_filename   |-> Name(file_path),
     taken_at           |-> metadata.taken_at,
     width              |-> metadata.width,
     height             |-> metadata.height,
     camera_make        |-> metadata.camera_make,
     camera_model       |-> metadata.camera_model,
     gps_latitude       |-> metadata.gps_latitude,
     gps_longitude      |-> metadata.gps_longitude,
     has_gps            |-> ~IsNone(metadata.gps_latitude) \/ ~IsNone(metadata.gps_longitude),
     iso                |-> camera_settings.iso,
     aperture           |-> camera_settings.aperture,
     shutter_speed      |-> camera_settings.shutter_speed,
     focal_length       |-> camera_settings.focal_length,
     lens_model         |-> camera_settings.lens_model,
     lens_make          |-> camera_settings.lens_make]

\* CorePhoto with the hash taken over the largest preview generated
CorePhotoHashOfLargest(file_path, metadata, camera_settings, hotpreview, coldpreview) ==
    [hothash            |-> IF IsNone(coldpreview) THEN hotpreview.hothash
                            ELSE Hothash(coldpreview[1].bytes),
     hotpreview_base64  |-> hotpreview.base64,
     hotpreview_width   |-> hotpreview.width,
     hotpreview_height  |-> hotpreview.height,
     coldpreview_base64 |-> IF IsNone(coldpreview) THEN None ELSE Some(coldpreview[1].base64),
     coldpreview_width  |-> IF IsNone(coldpreview) THEN None ELSE Some(coldpreview[1].width),
     coldpreview_height |-> IF IsNone(coldpreview) THEN None ELSE Some(coldpreview[1].height),
     primary_filename   |-> Name(file_path),
     taken_at           |-> metadata.taken_at,
     width              |-> metadata.width,
     height             |-> metadata.height,
     camera_make        |-> metadata.camera_make,
     camera_model       |-> metadata.camera_model,
     gps_latitude       |-> metadata.gps_latitude,
     gps_longitude      |-> metadata.gps_longitude,
     has_gps            |-> ~IsNone(metadata.gps_latitude),
     iso                |-> camera_settings.iso,
     aperture           |-> camera_settings.aperture,
     shutter_speed      |-> camera_settings.shutter_speed,
     focal_length       |-> camera_settings.focal_length,
     lens_model         |-> camera_settings.lens_model,
     lens_make          |-> camera_settings.lens_make]

\* CorePhoto with the source dimensions in the hotpreview fields
CorePhotoSourceDims(file_path, metadata, camera_settings, hotpreview, coldpreview) ==
    [hothash            |-> hotpreview.hothash,
     hotpreview_base64  |-> hotpreview.base64,
     hotpreview_width   |-> metadata.width,
     hotpreview_height  |-> metadata.height,
     coldpreview_base64 |-> IF IsNone(coldpreview) THEN None ELSE Some(coldpreview[1].base64),
     coldpreview_width  |-> IF IsNone(coldpreview) THEN None ELSE Some(coldpreview[1].width),
     coldpreview_height |-> IF IsNone(coldpreview) THEN None ELSE Some(coldpreview[1].height),
     primary_filename   |-> Name(file_path),
     taken_at           |-> metadata.taken_at,
     width              |-> metadata.width,
     height             |-> metadata.height,
     camera_make        |-> metadata.camera_make,
     camera_model       |-> metadata.camera_model,
     gps_latitude       |-> metadata.gps_latitude,
     gps_longitude      |-> metadata.gps_longitude,
     has_gps            |-> ~IsNone(metadata.gps_latitude),
     iso                |-> camera_settings.iso,
     aperture           |-> camera_settings.aperture,
     shutter_speed      |-> camera_settings.shutter_speed,
     focal_length       |-> camera_settings.focal_length,
     lens_model         |-> camera_settings.lens_model,
     lens_make          |-> camera_settings.lens_make]

\* CorePhoto with the file name mixed into the hash
CorePhotoSaltedHash(file_path, metadata, camera_settings, hotpreview, coldpreview) ==
    [hothash            |-> Hothash(<<hotpreview.bytes, Name(file_path)>>),
     hotpreview_base64  |-> hotpreview.base64,
     hotpreview_width   |-> hotpreview.width,
     hotpreview_height  |-> hotpreview.height,
     coldpreview_base64 |-> IF IsNone(coldpreview) THEN None ELSE Some(coldpreview[1].base64),
     coldpreview_width  |-> IF IsNone(coldpreview) THEN None ELSE Some(coldpreview[1].width),
     coldpreview_height |-> IF IsNone(coldpreview) THEN None ELSE Some(coldpreview[1].height),
     primary_filename   |-> Name(file_path),
     taken_at           |-> metadata.taken_at,
     width              |-> metadata.width,
     height             |-> metadata.height,
     camera_make        |-> metadata.camera_make,
     camera_model       |-> metadata.camera_model,
     gps_latitude       |-> metadata.gps_latitude,
     gps_longitude      |-> metadata.gps_longitude,
     has_gps            |-> ~IsNone(metadata.gps_latitude),
     iso                |-> camera_settings.iso,
     aperture           |-> camera_settings.aperture,
     shutter_speed      |-> camera_settings.shutter_speed,
     focal_length       |-> camera_settings.focal_length,
     lens_model         |-> camera_settings.lens_model,
     lens_make          |-> camera_settings.lens_make]

\* photo = CorePhoto(hothash=hotpreview.hothash, ...)
CorePhoto(file_path, metadata, camera_settings, hotpreview, coldpreview) ==
    [hothash            |-> hotpreview.hothash,
     hotpreview_base64  |-> hotpreview.base64,
     hotpreview_width   |-> hotpreview.width,
     hotpreview_height  |-> hotpreview.height,
     coldpreview_base64 |-> IF IsNone(coldpreview) THEN None ELSE Some(coldpreview[1].base64),
     coldpreview_width  |-> IF IsNone(coldpreview) THEN None ELSE Some(coldpreview[1].width),
     coldpreview_height |-> IF IsNone(coldpreview) THEN None ELSE Some(coldpreview[1].height),
     primary_filename   |-> Name(file_path),
     taken_at           |-> metadata.taken_at,
     width              |-> metadata.width,
     height             |-> metadata.height,
     camera_make        |-> metadata.camera_make,
     camera_model       |-> metadata.camera_model,
     gps_latitude       |-> metadata.gps_latitude,
     gps_longitude      |-> metadata.gps_longitude,
     has_gps            |-> ~IsNone(metadata.gps_latitude),
     iso                |-> camera_settings.iso,
     aperture           |-> camera_settings.aperture,
     shutter_speed      |-> camera_settings.shutter_speed,
     focal_length       |-> camera_settings.focal_length,
     lens_model         |-> camera_settings.lens_model,
     lens_make          |-> camera_settings.lens_make]

\* photo_dict = photo.to_dict(); return PhotoEggResponse(**photo_dict)
AssembleStep(c) ==
    LET photo == CorePhoto(Req(c).file_path, c.metadata[1], c.camera_settings[1],
                           c.hotpreview[1], c.coldpreview)
    IN  [c EXCEPT !.pc = "done",
                  !.steps = Append(@, "assemble"),
                  !.result = Some([status |-> 200, detail |-> None,
                                   body |-> Some(PhotoEggResponse(to_dict(photo)))])]

(***************************************************************************)
(* The call run alone, from its first statement to its end.                *)
(***************************************************************************)
NextStep(c) ==
    CASE c.pc = "request"                 -> ProcessImageRequest(c)
      [] c.pc = "param"                   -> CheckParamStep(c)
      [] c.pc = "exists"                  -> CheckExistsStep(c)
      [] c.pc = "validate"                -> ValidateFileStep(c)
      [] c.pc = "extract_basic"           -> ExtractBasicStep(c)
      [] c.pc = "extract_camera_settings" -> ExtractCameraSettingsStep(c)
      [] c.pc = "hotpreview"              -> GenerateHotpreviewStep(c)
      [] c.pc = "coldpreview"             -> GenerateColdpreviewStep(c)
      [] c.pc = "assemble"                -> AssembleStep(c)

RECURSIVE Run(_)
Run(c) == IF c.pc = "done" THEN c ELSE Run(NextStep(c))

process_image_endpoint(entry, req) == Run(Begin(entry, req))

(***************************************************************************)
(* Actions: worker i starts a call or performs its next statement.         *)
(***************************************************************************)
Workers == DOMAIN calls

At(i, pc) == calls[i].pc = pc

Set(i, c) == calls' = [calls EXCEPT ![i] = c]

Post(i) ==
    /\ At(i, "idle")
    /\ \E req \in Requests : Set(i, Begin("http", req))
    /\ UNCHANGED prev

PostConc(i) ==
    /\ At(i, "idle")
    /\ \E req \in ConcRequests : Set(i, Begin("http", req))
    /\ UNCHANGED prev

Invoke(i) ==
    /\ At(i, "idle")
    /\ \E req \in Requests : Set(i, Begin("direct", req))
    /\ UNCHANGED prev

ValidateRequest(i) ==
    /\ At(i, "request")
    /\ Set(i, ProcessImageRequest(calls[i]))
    /\ UNCHANGED prev

CheckParam(i) ==
    /\ At(i, "param")
    /\ Set(i, CheckParamStep(calls[i]))
    /\ UNCHANGED prev

CheckExists(i) ==
    /\ At(i, "exists")
    /\ Set(i, CheckExistsStep(calls[i]))
    /\ UNCHANGED prev

ValidateFile(i) ==
    /\ At(i, "validate")
    /\ Set(i, ValidateFileStep(calls[i]))
    /\ UNCHANGED prev

ExtractBasic(i) ==
    /\ At(i, "extract_basic")
    /\ Set(i, ExtractBasicStep(calls[i]))
    /\ UNCHANGED prev

ExtractCameraSettings(i) ==
    /\ At(i, "extract_camera_settings")
    /\ Set(i, ExtractCameraSettingsStep(calls[i]))
    /\ UNCHANGED prev

\* GenerateHotpreview reading the path from a variable of the module that
\* the busy worker of lowest number has set, instead of the call's own request
SharedPath ==
    Req(calls[CHOOSE j \in Workers :
                 ~At(j, "idle") /\ \A k \in Workers : ~At(k, "idle") => j <= k]).file_path

GenerateHotpreviewShared(i) ==
    /\ At(i, "hotpreview")
    /\ LET mine == Req(calls[i])
           c    == GenerateHotpreviewStep(
                      [calls[i] EXCEPT !.req = Some([mine EXCEPT !.file_path = SharedPath])])
       IN  Set(i, [c EXCEPT !.req = Some(mine)])
    /\ UNCHANGED prev

GenerateHotpreview(i) ==
    /\ At(i, "hotpreview")
    /\ Set(i, GenerateHotpreviewStep(calls[i]))
    /\ UNCHANGED prev

GenerateColdpreview(i) ==
    /\ At(i, "coldpreview")
    /\ Set(i, GenerateColdpreviewStep(calls[i]))
    /\ UNCHANGED prev

Assemble(i) ==
    /\ At(i, "assemble")
    /\ Set(i, AssembleStep(calls[i]))
    /\ UNCHANGED prev

\* the response is sent; prev remembers the call that ended last
Respond(i) ==
    /\ At(i, "done")
    /\ Set(i, Idle)
    /\ prev' = Some([entry |-> calls[i].entry, req |-> Req(calls[i]),
                     steps |-> calls[i].steps, result |-> calls[i].result[1]])

(***************************************************************************)
(* Spec: one worker serving call after call.                               *)
(* SpecConc: NumCalls workers, each serving one call, steps interleaved.   *)
(***************************************************************************)
Init ==
    /\ calls = [i \in {1} |-> Idle]
    /\ prev = None

Next ==
    \/ \E i \in Workers : Post(i)
    \/ \E i \in Workers : Invoke(i)
    \/ \E i \in Workers : ValidateRequest(i)
    \/ \E i \in Workers : CheckParam(i)
    \/ \E i \in Workers : CheckExists(i)
    \/ \E i \in Workers : ValidateFile(i)
    \/ \E i \in Workers : ExtractBasic(i)
    \/ \E i \in Workers : ExtractCameraSettings(i)
    \/ \E i \in Workers : GenerateHotpreview(i)
    \/ \E i \in Workers : GenerateColdpreview(i)
    \/ \E i \in Workers : Assemble(i)
    \/ \E i \in Workers : Respond(i)

Spec == Init /\ [][Next]_vars

InitConc ==
    /\ calls = [i \in 1..NumCalls |-> Idle]
    /\ prev = None

NextConc ==
    \/ \E i \in Workers : PostConc(i)
    \/ \E i \in Workers : ValidateRequest(i)
    \/ \E i \in Workers : CheckParam(i)
    \/ \E i \in Workers : CheckExists(i)
    \/ \E i \in Workers : ValidateFile(i)
    \/ \E i \in Workers : ExtractBasic(i)
    \/ \E i \in Workers : ExtractCameraSettings(i)
    \/ \E i \in Workers : GenerateHotpreview(i)
    \/ \E i \in Workers : GenerateColdpreview(i)
    \/ \E i \in Workers : Assemble(i)

SpecConc == InitConc /\ [][NextConc]_vars

(***************************************************************************)
(* The calls that have ended: worker k's, while its response is not sent   *)
(* yet, and under key 0 the call that ended last before.                   *)
(***************************************************************************)
EndedCall(i) ==
    [entry |-> calls[i].entry, req |-> Req(calls[i]),
     steps |-> calls[i].steps, result |-> calls[i].result[1]]

Ended ==
    [k \in {i \in Workers : At(i, "done")} \cup (IF IsNone(prev) THEN {} ELSE {0}) |->
       IF k = 0 THEN prev[1] ELSE EndedCall(k)]

Succeeded(e) == e.result.status = 200

Body(e) == e.result.body[1]

Cause(e) == e.result.detail[1][1]

SizeTooSmall(req) ==
    ~IsNone(req.coldpreview_size) /\ req.coldpreview_size[1] < HOTPREVIEW_SIZE

ImageOf(req) == Image(FileAt(req.file_path).bytes)

(***************************************************************************)
(* C1: in the record of every successful call, has_gps is true exactly     *)
(* when gps_latitude is present, whatever gps_longitude is.                *)
(***************************************************************************)
C1_HasGpsIffLatitude ==
    \A k \in DOMAIN Ended :
       Succeeded(Ended[k]) =>
          (Body(Ended[k]).has_gps <=> ~IsNone(Body(Ended[k]).gps_latitude))

\* a record with a longitude and no latitude, and one with both
C1_Witness ==
    /\ \E k \in DOMAIN Ended :
          /\ Succeeded(Ended[k])
          /\ IsNone(Body(Ended[k]).gps_latitude)
          /\ ~IsNone(Body(Ended[k]).gps_longitude)
          /\ ~Body(Ended[k]).has_gps
    /\ \E k \in DOMAIN Ended :
          /\ Succeeded(Ended[k])
          /\ ~IsNone(Body(Ended[k]).gps_latitude)
          /\ Body(Ended[k]).has_gps

(***************************************************************************)
(* C2: a call whose coldpreview_size is present and below 150 performs no  *)
(* step other than the parameter check, and when it has ended it has ended *)
(* in an error about coldpreview_size with no record: the request model    *)
(* rejects it on the route, the handler itself when called directly.       *)
(***************************************************************************)
ParamErrors == {"coldpreview_size must be >= 150", "coldpreview_size: greater than or equal"}

C2_SmallSizeRejectedFirst ==
    \A i \in Workers :
       (~At(i, "idle") /\ SizeTooSmall(Req(calls[i]))) =>
          /\ calls[i].pc \in {"request", "param", "done"}
          /\ calls[i].steps \in {<<>>, <<"param">>}
          /\ IsNone(calls[i].metadata) /\ IsNone(calls[i].camera_settings)
          /\ IsNone(calls[i].hotpreview) /\ IsNone(calls[i].coldpreview)
          /\ At(i, "done") =>
                /\ ~Succeeded(EndedCall(i))
                /\ IsNone(EndedCall(i).result.body)
                /\ Cause(EndedCall(i)) \in ParamErrors
                /\ calls[i].entry = "direct" =>
                      /\ calls[i].steps = <<"param">>
                      /\ EndedCall(i).result.status = 400

\* the handler itself has rejected size 100 for a file that is on disk
C2_Witness ==
    \E i \in Workers :
       /\ At(i, "done")
       /\ calls[i].entry = "direct"
       /\ Req(calls[i]).coldpreview_size = Some(100)
       /\ Exists(Req(calls[i]).file_path)
       /\ Cause(EndedCall(i)) = "coldpreview_size must be >= 150"

(***************************************************************************)
(* C3: two successful calls on the same file return the same hothash,      *)
(* whatever coldpreview_size each was given.                               *)
(***************************************************************************)
C3_HothashIgnoresColdpreviewSize ==
    \A j, k \in DOMAIN Ended :
       (/\ Succeeded(Ended[j]) /\ Succeeded(Ended[k])
        /\ Ended[j].req.file_path = Ended[k].req.file_path) =>
          Body(Ended[j]).hothash = Body(Ended[k]).hothash

\* a call without coldpreview and one with coldpreview 300, on the same file
C3_Witness ==
    \E j, k \in DOMAIN Ended :
       /\ Succeeded(Ended[j]) /\ Succeeded(Ended[k])
       /\ Ended[j].req.file_path = Ended[k].req.file_path
       /\ Ended[j].req.coldpreview_size = None
       /\ Ended[k].req.coldpreview_size = Some(300)
       /\ ~IsNone(Body(Ended[k]).coldpreview_base64)

(***************************************************************************)
(* C4: metadata extraction never ends a call.  No call ends at an          *)
(* extraction step; a call that passes the parameter, existence and format *)
(* checks and whose previews can be generated succeeds whatever the state  *)
(* of its EXIF block; and every record field whose EXIF tags cannot be     *)
(* read is absent.  (taken_at has a source outside EXIF, the file's        *)
(* modification time, and is not among these fields.)                      *)
(***************************************************************************)
MetadataSteps == {"extract_basic", "extract_camera_settings"}

Unreadable(e, tag) == IsNone(Tag(ImageOf(e.req).exif, tag))

PreviewsFail(req) ==
    \/ "hot" \in ImageOf(req).fails
    \/ ~IsNone(req.coldpreview_size) /\ "cold" \in ImageOf(req).fails

PassesChecks(req) ==
    /\ ~SizeTooSmall(req)
    /\ Exists(req.file_path)
    /\ validate_file(req.file_path).is_valid

StepOrder(req) ==
    <<"param", "exists", "validate", "extract_basic", "extract_camera_settings", "hotpreview">>
    \o (IF IsNone(req.coldpreview_size) THEN <<>> ELSE <<"coldpreview">>)
    \o <<"assemble">>

IsPrefix(s, t) == Len(s) <= Len(t) /\ s = SubSeq(t, 1, Len(s))

FirstFailure(req) ==
    IF SizeTooSmall(req) THEN "param"
    ELSE IF ~Exists(req.file_path) THEN "exists"
    ELSE IF ~validate_file(req.file_path).is_valid THEN "validate"
    ELSE IF "hot" \in ImageOf(req).fails THEN "hotpreview"
    ELSE IF ~IsNone(req.coldpreview_size) /\ "cold" \in ImageOf(req).fails THEN "coldpreview"
    ELSE "none"

CauseAt(step, req) ==
    CASE step = "param"      -> "coldpreview_size must be >= 150"
      [] step = "exists"     -> "File not found"
      [] step = "validate"   -> validate_file(req.file_path).error
      [] step \in {"hotpreview", "coldpreview"} -> "Processing failed"

RejectedByRequestModel(e) == e.entry = "http" /\ SizeTooSmall(e.req)

C5_OrderAndFirstFailure ==
    /\ \A i \in Workers : ~At(i, "idle") => IsPrefix(calls[i].steps, StepOrder(Req(calls[i])))
    /\ \A k \in DOMAIN Ended :
          LET e == Ended[k] IN
            /\ IsPrefix(e.steps, StepOrder(e.req))
            /\ Succeeded(e) <=> FirstFailure(e.req) = "none"
            /\ Succeeded(e) =>
                  /\ e.steps = StepOrder(e.req)
                  /\ IsNone(e.result.detail) /\ ~IsNone(e.result.body)
            /\ ~Succeeded(e) =>
                  /\ IsNone(e.result.body) /\ ~IsNone(e.result.detail)
                  /\ RejectedByRequestModel(e) => e.steps = <<>>
                  /\ ~RejectedByRequestModel(e) =>
                        /\ e.steps # <<>>
                        /\ e.steps[Len(e.steps)] = FirstFailure(e.req)
                        /\ Cause(e) = CauseAt(FirstFailure(e.req), e.req)

\* a request with two faults reports the first; a coldpreview failure ends a
\* call that had done every earlier step
C5_Witness ==
    /\ \E k \in DOMAIN Ended :
          /\ Ended[k].entry = "direct"
          /\ SizeTooSmall(Ended[k].req) /\ ~Exists(Ended[k].req.file_path)
          /\ Cause(Ended[k]) = "coldpreview_size must be >= 150"
    /\ \E k \in DOMAIN Ended :
          /\ ~Succeeded(Ended[k])
          /\ Len(Ended[k].steps) = 7
          /\ Ended[k].steps[7] = "coldpreview"

(***************************************************************************)
(* C6: every successful record has hotpreview_width = 150 and              *)
(* hotpreview_height = 150, and they are the dimensions the hotpreview     *)
(* step produced.                                                          *)
(***************************************************************************)
C6_HotpreviewIs150Square ==
    /\ \A k \in DOMAIN Ended :
          Succeeded(Ended[k]) =>
             /\ Body(Ended[k]).hotpreview_width = HOTPREVIEW_SIZE
             /\ Body(Ended[k]).hotpreview_height = HOTPREVIEW_SIZE
    /\ \A i \in Workers :
          (At(i, "done") /\ Succeeded(EndedCall(i))) =>
             /\ Body(EndedCall(i)).hotpreview_width = calls[i].hotpreview[1].width
             /\ Body(EndedCall(i)).hotpreview_height = calls[i].hotpreview[1].height

\* a source smaller than 150 on both edges, and a turned portrait source
C6_Witness ==
    /\ \E k \in DOMAIN Ended :
          /\ Succeeded(Ended[k])
          /\ Body(Ended[k]).width < HOTPREVIEW_SIZE /\ Body(Ended[k]).height < HOTPREVIEW_SIZE
          /\ Body(Ended[k]).width # Body(Ended[k]).height
    /\ \E k \in DOMAIN Ended :
          /\ Succeeded(Ended[k])
          /\ Body(Ended[k]).width < Body(Ended[k]).height
          /\ Body(Ended[k]).width > HOTPREVIEW_SIZE

(***************************************************************************)
(* C7: a call ends either in an error without a record, or in a record     *)
(* with hothash and hotpreview and, when coldpreview_size was given, the   *)
(* coldpreview too; a call whose hotpreview or requested coldpreview       *)
(* cannot be generated ends in an error.                                   *)
(***************************************************************************)
C7_NoPartialPreview ==
    \A k \in DOMAIN Ended :
       LET e == Ended[k] IN
         /\ ~Succeeded(e) => IsNone(e.result.body)
         /\ Succeeded(e) =>
               /\ Body(e).hothash = Hothash(Value(generate_hotpreview(e.req.file_path)).bytes)
               /\ Body(e).hotpreview_base64 =
                     Base64(Value(generate_hotpreview(e.req.file_path)).bytes)
               /\ ~IsNone(e.req.coldpreview_size) =>
                     /\ ~IsNone(Body(e).coldpreview_base64)
                     /\ ~IsNone(Body(e).coldpreview_width)
                     /\ ~IsNone(Body(e).coldpreview_height)
         /\ (PassesChecks(e.req) /\ PreviewsFail(e.req)) =>
               /\ ~Succeeded(e)
               /\ Cause(e) = "Processing failed"

\* the hotpreview was generated, the requested coldpreview failed: an error
C7_Witness ==
    \E i \in Workers :
       /\ At(i, "done")
       /\ ~IsNone(calls[i].hotpreview)
       /\ ~IsNone(Req(calls[i]).coldpreview_size)
       /\ "cold" \in ImageOf(Req(calls[i])).fails
       /\ ~Succeeded(EndedCall(i))
       /\ IsNone(EndedCall(i).result.body)

(***************************************************************************)
(* C8: an image that passes validation and has no EXIF segment gives a     *)
(* record in which taken_at, camera_make, camera_model, gps_latitude,      *)
(* gps_longitude, iso, aperture, shutter_speed, focal_length, lens_model   *)
(* and lens_make are all absent, has_gps is false, and width and height    *)
(* are populated.                                                          *)
(***************************************************************************)
ExifFields ==
    { "taken_at", "camera_make", "camera_model", "gps_latitude", "gps_longitude",
      "iso", "aperture", "shutter_speed", "focal_length", "lens_model", "lens_make" }

C8_NoExifAllAbsent ==
    \A k \in DOMAIN Ended :
       (Succeeded(Ended[k]) /\ ImageOf(Ended[k].req).exif.st = "none") =>
          /\ \A f \in ExifFields : IsNone(Body(Ended[k])[f])
          /\ ~Body(Ended[k]).has_gps
          /\ Body(Ended[k]).width > 0 /\ Body(Ended[k]).height > 0

(***************************************************************************)
(* C9: under every interleaving of the steps of concurrent calls, each     *)
(* call ends, from wherever it stands, with the steps and the result it    *)
(* has when run alone.                                                     *)
(***************************************************************************)
C9_CallsIndependent ==
    \A i \in Workers :
       ~At(i, "idle") =>
          LET alone == process_image_endpoint(calls[i].entry, Req(calls[i]))
              here  == Run(calls[i])
          IN  /\ here.result = alone.result
              /\ here.steps = alone.steps

\* one call has returned a record while another, on a different file, is
\* between its steps
C9_Witness ==
    \E i, j \in Workers :
       /\ i # j
       /\ At(i, "done") /\ Succeeded(EndedCall(i))
       /\ calls[j].pc \in {"hotpreview", "coldpreview", "assemble"}
       /\ Req(calls[i]).file_path # Req(calls[j]).file_path
       /\ FileAt(Req(calls[i]).file_path).bytes # FileAt(Req(calls[j]).file_path).bytes

(***************************************************************************)
(* C10: two successful calls on files with identical bytes and different   *)
(* names return the same hothash; primary_filename is the last component   *)
(* of the path given; and with the same coldpreview_size the two records   *)
(* agree on every field but primary_filename (and taken_at where it comes  *)
(* from the file's modification time rather than from the bytes).          *)
(***************************************************************************)
SameBytes(d, e) == FileAt(d.req.file_path).bytes = FileAt(e.req.file_path).bytes

Performed(steps, name) == \E n \in 1..Len(steps) : steps[n] = name

C11_ColdpreviewFieldsTogether ==
    /\ \A k \in DOMAIN Ended :
          Succeeded(Ended[k]) =>
             LET given == ~IsNone(Ended[k].req.coldpreview_size) IN
               /\ ~IsNone(Body(Ended[k]).coldpreview_base64) <=> given
               /\ ~IsNone(Body(Ended[k]).coldpreview_width) <=> given
               /\ ~IsNone(Body(Ended[k]).coldpreview_height) <=> given
               /\ Performed(Ended[k].steps, "coldpreview") <=> given
    /\ \A k \in DOMAIN Ended :
          IsNone(Ended[k].req.coldpreview_size) => ~Performed(Ended[k].steps, "coldpreview")
    /\ \A i \in Workers :
          (~At(i, "idle") /\ IsNone(Req(calls[i]).coldpreview_size)) =>
             /\ ~Performed(calls[i].steps, "coldpreview")
             /\ IsNone(calls[i].coldpreview)

\* a record with all three fields, and one, past the coldpreview statement,
\* with none of them
C11_Witness ==
    /\ \E k \in DOMAIN Ended :
          /\ Succeeded(Ended[k])
          /\ Ended[k].req.coldpreview_size = Some(300)
          /\ ~IsNone(Body(Ended[k]).coldpreview_base64)
          /\ ~IsNone(Body(Ended[k]).coldpreview_width)
          /\ ~IsNone(Body(Ended[k]).coldpreview_height)
    /\ \E k \in DOMAIN Ended :
          /\ Succeeded(Ended[k])
          /\ IsNone(Ended[k].req.coldpreview_size)
          /\ IsNone(Body(Ended[k]).coldpreview_base64)
          /\ IsNone(Body(Ended[k]).coldpreview_width)
          /\ IsNone(Body(Ended[k]).coldpreview_height)
          /\ ~Performed(Ended[k].steps, "coldpreview")

====
